---- MODULE Spec2Model ----
(***************************************************************************)
(* Verification model of the zeabur/astro repository:                      *)
(*   - the Zeabur serverless adapter (serverless/adapter.ts),              *)
(*   - the Zeabur static adapter (static/adapter.ts),                      *)
(*   - the serverless entrypoint handler (serverless/entrypoint.ts),       *)
(*   - the blog actions of the actions-blog fixture (actions/index.ts),    *)
(*   - the virtual-module plugin of the Vue integration.                   *)
(* Strings are TLA+ strings; JavaScript string functions are computed on   *)
(* them character by character (Len, SubSeq, \o).                          *)
(***************************************************************************)
EXTENDS Integers, Sequences, FiniteSets, TLC

(***************************************************************************)
(* JavaScript strings                                                      *)
(***************************************************************************)

\* String.prototype.startsWith
startsWith(s, p) == Len(s) >= Len(p) /\ SubSeq(s, 1, Len(p)) = p

\* String.prototype.endsWith
endsWith(s, p) == Len(s) >= Len(p) /\ SubSeq(s, Len(s) - Len(p) + 1, Len(s)) = p

\* String.prototype.indexOf, 1-based; 0 when p does not occur in s
indexOf(s, p) ==
    LET at == {i \in 1..(Len(s) - Len(p) + 1) : SubSeq(s, i, i + Len(p) - 1) = p}
    IN  IF at = {} THEN 0 ELSE CHOOSE i \in at : \A j \in at : i <= j

\* String.prototype.lastIndexOf, 1-based; 0 when p does not occur in s
lastIndexOf(s, p) ==
    LET at == {i \in 1..(Len(s) - Len(p) + 1) : SubSeq(s, i, i + Len(p) - 1) = p}
    IN  IF at = {} THEN 0 ELSE CHOOSE i \in at : \A j \in at : i >= j

\* String.prototype.replace with a string pattern: the first occurrence only
replace(s, p, r) ==
    LET i == indexOf(s, p)
    IN  IF i = 0 THEN s
        ELSE SubSeq(s, 1, i - 1) \o r \o SubSeq(s, i + Len(p), Len(s))

\* s.replace(/\.mjs$/, ''): the pattern is anchored at the end of the string
replaceMjsSuffix(s) ==
    IF endsWith(s, ".mjs") THEN SubSeq(s, 1, Len(s) - 4) ELSE s

\* node:path basename: trailing slashes are dropped, then the part after the
\* last slash is taken
RECURSIVE stripTrailingSlashes(_)
stripTrailingSlashes(s) ==
    IF Len(s) > 1 /\ endsWith(s, "/")
    THEN stripTrailingSlashes(SubSeq(s, 1, Len(s) - 1))
    ELSE s

basename(path) ==
    LET p == stripTrailingSlashes(path)
        i == lastIndexOf(p, "/")
    IN  IF p = "/" THEN "" ELSE SubSeq(p, i + 1, Len(p))

\* new URL(rel, base) for the relative references the adapters use: a plain
\* file name or './name' resolved against a base that ends in '/'
NewURL(rel, base) ==
    IF startsWith(rel, "./") THEN base \o SubSeq(rel, 3, Len(rel)) ELSE base \o rel

(***************************************************************************)
(* JavaScript values (the maxDuration option is typed number, but the      *)
(* constructor checks it at run time, so any value can arrive)             *)
(***************************************************************************)

JSUndefined == [t |-> "undefined", num |-> 0, str |-> "", bool |-> FALSE]
JSNum(n)    == [t |-> "number",    num |-> n, str |-> "", bool |-> FALSE]
JSStr(s)    == [t |-> "string",    num |-> 0, str |-> s,  bool |-> FALSE]
JSBool(b)   == [t |-> "boolean",   num |-> 0, str |-> "", bool |-> b]

\* typeof v
typeof(v) == v.t

\* ToBoolean(v): what `if (v)` and `v && ...` and `v || ...` test
Truthy(v) ==
    CASE v.t = "number"  -> v.num # 0
      [] v.t = "string"  -> v.str # ""
      [] v.t = "boolean" -> v.bool
      [] OTHER           -> FALSE

(***************************************************************************)
(* Bounds of the model                                                     *)
(***************************************************************************)

\* the largest number of routes in the route-to-entry-file mapping
MaxRoutes == 2

(***************************************************************************)
(* The adapters: constants of serverless/adapter.ts and static/adapter.ts  *)
(***************************************************************************)

PACKAGE_NAME == "@zeabur/astro-adapter/serverless"
STATIC_PACKAGE_NAME == "@zeabur/astro-adapter/static"
VERCEL_EDGE_MIDDLEWARE_FILE == "vercel-edge-middleware"

\* major version -> status (the removal date of a deprecated version is not
\* modelled: it only appears in the text of a warning)
SUPPORTED_NODE_VERSIONS ==
    [major \in {"16", "18", "20"} |->
        CASE major = "16" -> "deprecated"
          [] major = "18" -> "current"
          [] major = "20" -> "beta"]

\* the local Node.js major versions a build is run with
NodeMajors == {"16", "18", "20", "22"}

NoError == [name |-> "", message |-> ""]
Err(n, m) == [name |-> n, message |-> m]

\* the maxDuration values a caller passes (undefined: the option is omitted)
MaxDurations ==
    { JSUndefined, JSNum(0), JSNum(0 - 5), JSNum(1), JSNum(901),
      JSStr("10"), JSStr(""), JSBool(TRUE) }

\* the project: config.root, and the output modes of an Astro config
Root == "file:///project/"
Outputs == {"static", "server", "hybrid"}

\* lib/fs.js getOutput(root): the platform output directory
getOutput(root) == NewURL("./.zeabur/output/", root)

\* lib/prerender.js isServerLikeOutput(config)
isServerLikeOutput(config) == config.output = "server" \/ config.output = "hybrid"

\* The user's Astro config before any integration has updated it
UserConfig(output) ==
    [ output      |-> output,
      root        |-> Root,
      srcDir      |-> NewURL("./src/", Root),
      outDir      |-> NewURL("./dist/", Root),
      server      |-> NewURL("./dist/server/", Root),
      client      |-> NewURL("./dist/client/", Root),
      serverEntry |-> "entry.mjs" ]

\* The routes of the project with the entry file the build resolved for each
\* (RouteData.component, RouteData.pattern.source, the entry file URL): two
\* pages of src/pages and two routes injected by integrations; the build
\* names an entry file entry.<last segment of the route>.astro.mjs in the
\* directory of the route
EntryPointUniverse ==
    { [component |-> "src/pages/index.astro",
       pattern   |-> "^\\/$",
       entryFile |-> "file:///project/dist/pages/entry.index.astro.mjs"],
      [component |-> "src/pages/blog/[slug].astro",
       pattern   |-> "^\\/blog\\/([^/]+?)\\/?$",
       entryFile |-> "file:///project/dist/pages/blog/entry._slug_.astro.mjs"],
      [component |-> "node_modules/astro/dist/assets/endpoint/generic.js",
       pattern   |-> "^\\/_image$",
       entryFile |-> "file:///project/dist/pages/entry._image.astro.mjs"],
      [component |-> "node_modules/@acme/cdn/dist/endpoint.js",
       pattern   |-> "^\\/cdn\\/_image$",
       entryFile |-> "file:///project/dist/pages/cdn/entry._image.astro.mjs"] }

\* A Map<RouteData, URL> in insertion order: a sequence without repetition
EntryPointMaps ==
    { m \in UNION {[1..k -> EntryPointUniverse] : k \in 0..MaxRoutes} :
        \A i, j \in 1..Len(m) : i # j => m[i] # m[j] }

(***************************************************************************)
(* State of one build of a project with one of the two adapters            *)
(***************************************************************************)
VARIABLES
    revision,           \* which of the two revisions of serverless/adapter.ts is built
    integration,        \* "none", "serverless" or "static": the integration constructed
    hook,               \* the hook (or "construct") that ran last or is running
    pc,                 \* "returned", "threw", or the position inside a running hook
    thrown,             \* the error the constructor or the hook threw
    options,            \* vercelServerless' options
    config,             \* the Astro config as the integrations see it
    adapter,            \* what setAdapter was called with
    warnings,           \* logger.warn / console.warn output, by kind
    closure,            \* _config, buildTempFolder, serverEntry, _entryPoints, extraFilesToInclude
    nodeMajor,          \* major version of process.version
    routeDefinitions,   \* local of serverless astro:build:done
    next,               \* index in _entryPoints of the route being processed
    created,            \* function names createFunctionFolder was called with, in order
    functionFolders,    \* file system: function folder URL -> the files copied into it
    jsonFiles,          \* file system: URL of a JSON file -> its content
    staticFiles,        \* file system: URLs of the generated pages and assets
    tempFolder          \* file system: whether the temporary server build folder exists

adapterVars ==
    << revision, integration, hook, pc, thrown, options, config, adapter, warnings,
       closure, nodeMajor, routeDefinitions, next, created, functionFolders,
       jsonFiles, staticFiles, tempFolder >>

(***************************************************************************)
(* State of the serverless function (serverless/entrypoint.ts)             *)
(***************************************************************************)
VARIABLES
    req,                \* the incoming request the handler was called with
    hpc,                \* position of the handler: "idle", "getRequest", "render",
                        \* "setResponse", "done" (returned) or "rejected"
    caught,             \* the error getRequest threw, as the catch clause sees it
    res,                \* the ServerResponse: statusCode, whether ended, the body
    calls,              \* the calls made on app and setResponse for this request
    locals,             \* the locals given to app.render
    served,             \* the number of requests the handler has been called with
    response            \* what app.render resolved to

entrypointVars == << req, hpc, caught, res, calls, locals, served, response >>

(***************************************************************************)
(* State of the blog actions (actions-blog/src/actions/index.ts)           *)
(***************************************************************************)
VARIABLES
    Likes,              \* table Likes: postId -> likes
    Comment,            \* table Comment: the rows in insertion order
    likeCalls,          \* the invocations of blog.like, in the order they started
    lastOp              \* the outcome of the blog.comment submission made last

blogVars == << Likes, Comment, likeCalls, lastOp >>

(***************************************************************************)
(* State of the Vue virtual-module plugin (virtualAppEntrypoint)           *)
(***************************************************************************)
VARIABLES
    vueOptions,         \* options.appEntrypoint the plugin was created with
    vuePhase,           \* "created", "config" or "resolved": the Vite hooks that have run
    vueCommand,         \* the command Vite's config hook was called with
    isBuild,            \* closure variable isBuild
    viteRoot,           \* closure variable root
    appEntrypoint,      \* closure variable appEntrypoint
    vueCall,            \* the resolveId, load or transform call made last
    vueResult,          \* what that call returned
    vueRun              \* the last run of the setup function of a loaded module

vueVars == << vueOptions, vuePhase, vueCommand, isBuild, viteRoot, appEntrypoint,
              vueCall, vueResult, vueRun >>

notAdapterVars == << entrypointVars, blogVars, vueVars >>
notEntrypointVars == << adapterVars, blogVars, vueVars >>
notBlogVars == << adapterVars, entrypointVars, vueVars >>
notVueVars == << adapterVars, entrypointVars, blogVars >>
vars == << adapterVars, entrypointVars, blogVars, vueVars >>

NoAdapter == [name |-> "", edgeMiddleware |-> FALSE, functionPerRoute |-> FALSE,
              serverOutput |-> "", hybridOutput |-> "", staticOutput |-> ""]
NoClosure == [config |-> UserConfig("static"), set |-> FALSE, buildTempFolder |-> "",
              serverEntry |-> "", entryPoints |-> <<>>, extraFilesToInclude |-> {}]
NoOptions == [maxDuration |-> JSUndefined, functionPerRoute |-> FALSE,
              edgeMiddleware |-> FALSE]

\* What an earlier build (with either adapter) may have left in the platform
\* output directory
StaleFolder == "file:///project/.zeabur/output/functions/old.func/"
StaleConfig == [routes |-> <<[src |-> "^\\/old$", dest |-> "old"]>>, containerized |-> TRUE]
EmptyOutput ==
    [functionFolders |-> <<>>, jsonFiles |-> <<>>, staticFiles |-> {}]
StaleOutput ==
    [functionFolders |->
        [d \in {StaleFolder} |-> {"file:///project/dist/entry.old.mjs"}],
     jsonFiles |->
        [f \in {StaleFolder \o "package.json", "file:///project/.zeabur/output/config.json"} |->
            IF f = StaleFolder \o "package.json" THEN [type |-> "module"] ELSE StaleConfig],
     staticFiles |-> {"file:///project/.zeabur/output/static/stale.html"}]

AdapterInit ==
    /\ revision \in {1, 2}
    /\ integration = "none"
    /\ hook = "none"
    /\ pc = "returned"
    /\ thrown = NoError
    /\ options = NoOptions
    /\ \E output \in Outputs : config = UserConfig(output)
    /\ adapter = NoAdapter
    /\ warnings = {}
    /\ closure = NoClosure
    /\ nodeMajor \in NodeMajors
    /\ routeDefinitions = <<>>
    /\ next = 1
    /\ created = <<>>
    /\ \E out \in {EmptyOutput, StaleOutput} :
        /\ functionFolders = out.functionFolders
        /\ jsonFiles = out.jsonFiles
        /\ staticFiles = out.staticFiles
    /\ tempFolder = FALSE

(***************************************************************************)
(* lib/fs.js                                                               *)
(***************************************************************************)

\* writeJson(path, value): the file at path holds value afterwards
writeJson(files, path, value) ==
    [f \in DOMAIN files \cup {path} |-> IF f = path THEN value ELSE files[f]]

\* the entries of a path-keyed function that lie outside directory dir
outside(files, dir) ==
    [f \in {g \in DOMAIN files : ~startsWith(g, dir)} |-> files[f]]

(***************************************************************************)
(* lib/nft.js                                                              *)
(***************************************************************************)

\* copyDependenciesToFunction({entry, outDir, includeFiles}): the entry file
\* with the files it depends on, and the included files, are in outDir afterwards
copyDependenciesToFunction(folders, entry, outDir, includeFiles) ==
    [d \in DOMAIN folders \cup {outDir} |->
        IF d = outDir
        THEN (IF outDir \in DOMAIN folders THEN folders[outDir] ELSE {})
                \cup {entry} \cup includeFiles
        ELSE folders[d]]

(***************************************************************************)
(* serverless/adapter.ts                                                   *)
(***************************************************************************)

getAdapter(edgeMiddleware, functionPerRoute) ==
    [ name             |-> PACKAGE_NAME,
      edgeMiddleware   |-> edgeMiddleware,
      functionPerRoute |-> functionPerRoute,
      serverOutput     |-> "stable",
      hybridOutput     |-> "stable",
      staticOutput     |-> "stable" ]

\* The check of maxDuration at the top of vercelServerless: the error thrown,
\* NoError when none is
maxDurationError(maxDuration) ==
    IF Truthy(maxDuration)
    THEN IF typeof(maxDuration) # "number"
         THEN Err("TypeError", "maxDuration must be a number")
         ELSE IF maxDuration.num <= 0
              THEN Err("TypeError", "maxDuration must be a positive number")
              ELSE NoError
    ELSE NoError

\* vercelServerless({functionPerRoute, edgeMiddleware, maxDuration})
vercelServerless ==
    /\ integration = "none"
    /\ hook = "none"
    /\ \E maxDuration \in MaxDurations, functionPerRoute \in BOOLEAN, edgeMiddleware \in BOOLEAN :
        LET error == maxDurationError(maxDuration) IN
        /\ options' = [maxDuration |-> maxDuration, functionPerRoute |-> functionPerRoute,
                       edgeMiddleware |-> edgeMiddleware]
        /\ hook' = "construct"
        /\ thrown' = error
        /\ pc' = IF error = NoError THEN "returned" ELSE "threw"
        /\ integration' = IF error = NoError THEN "serverless" ELSE "none"
    /\ UNCHANGED << revision, config, adapter, warnings, closure, nodeMajor,
                    routeDefinitions, next, created, functionFolders, jsonFiles,
                    staticFiles, tempFolder >>
    /\ UNCHANGED notAdapterVars

\* the warning of 'astro:config:setup'
maxDurationWarnings(maxDuration) ==
    IF Truthy(maxDuration) /\ maxDuration.num > 900 THEN {"maxDuration"} ELSE {}

\* 'astro:config:setup'
ServerlessConfigSetup ==
    /\ integration = "serverless"
    /\ hook = "construct" /\ pc = "returned"
    /\ hook' = "astro:config:setup"
    /\ warnings' = warnings \cup maxDurationWarnings(options.maxDuration)
    /\ LET outDir == getOutput(config.root) IN
       config' = [config EXCEPT !.outDir = outDir,
                                !.serverEntry = "index.mjs",
                                !.client = NewURL("./static/", outDir),
                                !.server = NewURL("./dist/", config.root)]
    /\ UNCHANGED << revision, integration, pc, thrown, options, adapter, closure,
                    nodeMajor, routeDefinitions, next, created, functionFolders,
                    jsonFiles, staticFiles, tempFolder >>
    /\ UNCHANGED notAdapterVars

\* Faulty variant of serverlessRejects: hybrid output is rejected too
serverlessRejectsNotServer(cfg) == cfg.output # "server"

\* the condition under which 'astro:config:done' throws
serverlessRejects(cfg) == cfg.output = "static"

\* 'astro:config:done'
ServerlessConfigDone ==
    /\ integration = "serverless"
    /\ hook = "astro:config:setup" /\ pc = "returned"
    /\ hook' = "astro:config:done"
    /\ warnings' = IF revision = 1 /\ options.functionPerRoute = TRUE
                   THEN warnings \cup {"functionPerRoute"}
                   ELSE warnings
    /\ adapter' = getAdapter(options.edgeMiddleware, options.functionPerRoute)
    /\ closure' = [closure EXCEPT !.config = config, !.set = TRUE,
                                  !.buildTempFolder = config.server,
                                  !.serverEntry = config.serverEntry]
    /\ IF serverlessRejects(config)
       THEN /\ pc' = "threw"
            /\ thrown' = Err("AstroError",
                  "output: \"server\" or output: \"hybrid\" is required to use the serverless adapter.")
       ELSE /\ pc' = "returned"
            /\ UNCHANGED thrown
    /\ UNCHANGED << revision, integration, options, config, nodeMajor, routeDefinitions,
                    next, created, functionFolders, jsonFiles, staticFiles, tempFolder >>
    /\ UNCHANGED notAdapterVars

\* The framework's build between 'astro:config:done' and 'astro:build:ssr': the
\* serverless adapter registers no 'astro:build:start' hook; the server build
\* is written to config.build.server
AstroServerBuild ==
    /\ integration = "serverless"
    /\ hook = "astro:config:done" /\ pc = "returned"
    /\ hook' = "astro:build:start"
    /\ tempFolder' = TRUE
    /\ UNCHANGED << revision, integration, pc, thrown, options, config, adapter,
                    warnings, closure, nodeMajor, routeDefinitions, next, created,
                    functionFolders, jsonFiles, staticFiles >>
    /\ UNCHANGED notAdapterVars

\* The entryPoints the framework hands to 'astro:build:ssr': one entry per
\* route when the adapter asked for a function per route, none otherwise
EntryPointsFor(functionPerRoute) ==
    IF functionPerRoute THEN EntryPointMaps ELSE {<<>>}

\* 'astro:build:ssr'; a middlewareEntryPoint is passed only to an adapter that
\* declared edgeMiddleware
ServerlessBuildSsr ==
    /\ integration = "serverless"
    /\ hook = "astro:build:start" /\ pc = "returned"
    /\ hook' = "astro:build:ssr"
    /\ \E entryPoints \in EntryPointsFor(adapter.functionPerRoute),
          middlewareEntryPoint \in {FALSE, adapter.edgeMiddleware} :
        closure' = [closure EXCEPT
            !.entryPoints = entryPoints,
            !.extraFilesToInclude =
                IF middlewareEntryPoint
                THEN @ \cup {NewURL(VERCEL_EDGE_MIDDLEWARE_FILE \o ".mjs", closure.buildTempFolder)}
                ELSE @]
    /\ UNCHANGED << revision, integration, pc, thrown, options, config, adapter,
                    warnings, nodeMajor, routeDefinitions, next, created,
                    functionFolders, jsonFiles, staticFiles, tempFolder >>
    /\ UNCHANGED notAdapterVars

\* validateRuntime(): the error it throws (NoError when none) and what it warns
validateRuntime(major) ==
    LET defined == major \in DOMAIN SUPPORTED_NODE_VERSIONS
        support == SUPPORTED_NODE_VERSIONS[major]
    IN  IF ~defined
        THEN \* support.status is read of undefined
             [error |-> Err("TypeError", "Cannot read properties of undefined (reading 'status')"),
              warnings |-> {}]
        ELSE IF support = "beta"
        THEN [error |-> NoError, warnings |-> {"node:beta"}]
        ELSE IF ~defined
        THEN [error |-> NoError, warnings |-> {"node:unsupported"}]
        ELSE IF support = "deprecated"
        THEN [error |-> NoError, warnings |-> {"node:deprecated"}]
        ELSE [error |-> NoError, warnings |-> {}]

getRouteFuncName(route) == replace(route.component, "src/pages/", "")

\* Faulty variant of getFallbackFuncName: the .mjs suffix is kept
getFallbackFuncNameMjs(entryFile) ==
    replace(basename(entryFile), "entry.", "")

getFallbackFuncName(entryFile) ==
    replaceMjsSuffix(replace(basename(entryFile), "entry.", ""))

\* the function name of one entry of _entryPoints
funcName(entryPoint) ==
    IF startsWith(entryPoint.component, "src/pages/")
    THEN getRouteFuncName(entryPoint)
    ELSE getFallbackFuncName(entryPoint.entryFile)

\* createFunctionFolder: the folder of a function
functionFolder(functionName, cfg) ==
    NewURL("./functions/" \o functionName \o ".func/", cfg.outDir)

\* Faulty variant of dueFunction: the loop variable is not used, every call
\* is made for the first route of _entryPoints
dueFunctionFirst ==
    IF Len(closure.entryPoints) > 0
    THEN [functionName |-> funcName(closure.entryPoints[1]),
          entry        |-> closure.entryPoints[1].entryFile,
          src          |-> closure.entryPoints[1].pattern]
    ELSE [functionName |-> "__astro",
          entry        |-> NewURL(closure.serverEntry, closure.buildTempFolder),
          src          |-> "/.*"]

\* The call of createFunctionFolder that is due: for route number `next` of
\* _entryPoints, or the single catch-all call when _entryPoints is empty
dueFunction ==
    IF Len(closure.entryPoints) > 0
    THEN [functionName |-> funcName(closure.entryPoints[next]),
          entry        |-> closure.entryPoints[next].entryFile,
          src          |-> closure.entryPoints[next].pattern]
    ELSE [functionName |-> "__astro",
          entry        |-> NewURL(closure.serverEntry, closure.buildTempFolder),
          src          |-> "/.*"]

\* 'astro:build:done' up to the first call of createFunctionFolder
\* (the options includeFiles and excludeFiles and vite.assetsInclude are left
\* unset, so filesToInclude is extraFilesToInclude; revision 2 of the file does
\* not call validateRuntime)
ServerlessBuildDone ==
    /\ integration = "serverless"
    /\ hook = "astro:build:ssr" /\ pc = "returned"
    /\ hook' = "astro:build:done"
    /\ routeDefinitions' = <<>>
    /\ next' = 1
    /\ created' = <<>>
    /\ LET runtime == IF revision = 1 THEN validateRuntime(nodeMajor)
                      ELSE [error |-> NoError, warnings |-> {}] IN
        /\ warnings' = warnings \cup runtime.warnings
        /\ thrown' = runtime.error
        /\ pc' = IF runtime.error = NoError THEN "copy" ELSE "threw"
    /\ UNCHANGED << revision, integration, options, config, adapter, closure,
                    nodeMajor, functionFolders, jsonFiles, staticFiles, tempFolder >>
    /\ UNCHANGED notAdapterVars

\* Faulty variant of rejected: the error is caught and the hook goes on to
\* write the manifest
rejectedCaught(at) == "config"

\* An await of 'astro:build:done' (position `at`) rejects: the hook has no
\* try/catch, so the hook itself rejects there
rejected(at) == "threw"

\* createFunctionFolder, first await: copyDependenciesToFunction
CopyDependencies ==
    /\ hook = "astro:build:done" /\ pc = "copy"
    /\ integration = "serverless"
    /\ created' = Append(created, dueFunction.functionName)
    /\ \E ok \in BOOLEAN :
        IF ok
        THEN /\ functionFolders' =
                    copyDependenciesToFunction(functionFolders, dueFunction.entry,
                        functionFolder(dueFunction.functionName, closure.config),
                        closure.extraFilesToInclude)
             /\ pc' = "package"
             /\ UNCHANGED thrown
        ELSE /\ pc' = rejected("copy")
             /\ thrown' = Err("Error", "copyDependenciesToFunction failed")
             /\ UNCHANGED functionFolders
    /\ UNCHANGED << revision, integration, hook, options, config, adapter, warnings,
                    closure, nodeMajor, routeDefinitions, next, jsonFiles,
                    staticFiles, tempFolder >>
    /\ UNCHANGED notAdapterVars

\* Faulty variant of afterFunction: the loop is left after its first round
afterFunctionFirst(n, size) == "config"

\* Where 'astro:build:done' goes on when createFunctionFolder has returned
\* for entry number n of a mapping of the given size: the next round of the
\* loop, or the statements after it
afterFunction(n, size) == IF n < size THEN "copy" ELSE "config"

\* createFunctionFolder, second await: writeJson of package.json; then the
\* route definition is pushed and the loop goes on
WritePackageJson ==
    /\ hook = "astro:build:done" /\ pc = "package"
    /\ integration = "serverless"
    /\ \E ok \in BOOLEAN :
        IF ok
        THEN /\ jsonFiles' =
                    writeJson(jsonFiles,
                        NewURL("./package.json",
                            functionFolder(dueFunction.functionName, closure.config)),
                        [type |-> "module"])
             /\ routeDefinitions' =
                    Append(routeDefinitions,
                        [src |-> dueFunction.src, dest |-> dueFunction.functionName])
             /\ next' = next + 1
             /\ pc' = afterFunction(next, Len(closure.entryPoints))
             /\ UNCHANGED thrown
        ELSE /\ pc' = rejected("package")
             /\ thrown' = Err("Error", "writeJson failed")
             /\ UNCHANGED << jsonFiles, routeDefinitions, next >>
    /\ UNCHANGED << revision, integration, hook, options, config, adapter, warnings,
                    closure, nodeMajor, created, functionFolders, staticFiles, tempFolder >>
    /\ UNCHANGED notAdapterVars

\* the manifest 'astro:build:done' writes
serverlessManifest(routes) ==
    [routes |-> <<[src |-> ".*", dest |-> "/__astro"]>>, containerized |-> FALSE]

\* 'astro:build:done': writeJson of config.json
WriteConfigJson ==
    /\ hook = "astro:build:done" /\ pc = "config"
    /\ integration = "serverless"
    /\ \E ok \in BOOLEAN :
        IF ok
        THEN /\ jsonFiles' =
                    writeJson(jsonFiles, NewURL("./config.json", closure.config.outDir),
                        serverlessManifest(routeDefinitions))
             /\ pc' = "cleanup"
             /\ UNCHANGED thrown
        ELSE /\ pc' = rejected("config")
             /\ thrown' = Err("Error", "writeJson failed")
             /\ UNCHANGED jsonFiles
    /\ UNCHANGED << revision, integration, hook, options, config, adapter, warnings,
                    closure, nodeMajor, routeDefinitions, next, created,
                    functionFolders, staticFiles, tempFolder >>
    /\ UNCHANGED notAdapterVars

\* 'astro:build:done': removeDir(buildTempFolder)
RemoveTempFolder ==
    /\ hook = "astro:build:done" /\ pc = "cleanup"
    /\ integration = "serverless"
    /\ \E ok \in BOOLEAN :
        IF ok
        THEN /\ tempFolder' = FALSE
             /\ pc' = "returned"
             /\ UNCHANGED thrown
        ELSE /\ pc' = rejected("cleanup")
             /\ thrown' = Err("Error", "removeDir failed")
             /\ UNCHANGED tempFolder
    /\ UNCHANGED << revision, integration, hook, options, config, adapter, warnings,
                    closure, nodeMajor, routeDefinitions, next, created,
                    functionFolders, jsonFiles, staticFiles >>
    /\ UNCHANGED notAdapterVars

(***************************************************************************)
(* static/adapter.ts                                                       *)
(***************************************************************************)

staticGetAdapter ==
    [ name             |-> STATIC_PACKAGE_NAME,
      edgeMiddleware   |-> FALSE,
      functionPerRoute |-> FALSE,
      serverOutput     |-> "unsupported",
      hybridOutput     |-> "unsupported",
      staticOutput     |-> "stable" ]

\* vercelStatic()
vercelStatic ==
    /\ integration = "none"
    /\ hook = "none"
    /\ integration' = "static"
    /\ hook' = "construct"
    /\ UNCHANGED << revision, pc, thrown, options, config, adapter, warnings, closure,
                    nodeMajor, routeDefinitions, next, created, functionFolders,
                    jsonFiles, staticFiles, tempFolder >>
    /\ UNCHANGED notAdapterVars

\* 'astro:config:setup'
StaticConfigSetup ==
    /\ integration = "static"
    /\ hook = "construct" /\ pc = "returned"
    /\ hook' = "astro:config:setup"
    /\ config' = [config EXCEPT !.outDir = NewURL("./static/", getOutput(config.root))]
    /\ UNCHANGED << revision, integration, pc, thrown, options, adapter, warnings,
                    closure, nodeMajor, routeDefinitions, next, created,
                    functionFolders, jsonFiles, staticFiles, tempFolder >>
    /\ UNCHANGED notAdapterVars

\* the condition under which 'astro:config:done' throws
staticRejects(cfg) == isServerLikeOutput(cfg)

\* 'astro:config:done'
StaticConfigDone ==
    /\ integration = "static"
    /\ hook = "astro:config:setup" /\ pc = "returned"
    /\ hook' = "astro:config:done"
    /\ adapter' = staticGetAdapter
    /\ closure' = [closure EXCEPT !.config = config, !.set = TRUE]
    /\ IF staticRejects(config)
       THEN /\ pc' = "threw"
            /\ thrown' = Err("Error", STATIC_PACKAGE_NAME \o " should be used with output: 'static'")
       ELSE /\ pc' = "returned"
            /\ UNCHANGED thrown
    /\ UNCHANGED << revision, integration, options, config, warnings, nodeMajor,
                    routeDefinitions, next, created, functionFolders, jsonFiles,
                    staticFiles, tempFolder >>
    /\ UNCHANGED notAdapterVars

\* Faulty variant of staticEmptied: only the directory of the pages is emptied
staticEmptiedOutDir(cfg) == cfg.outDir

\* what 'astro:build:start' empties
staticEmptied(cfg) == getOutput(cfg.root)

\* 'astro:build:start': emptyDir(getOutput(_config.root))
StaticBuildStart ==
    /\ integration = "static"
    /\ hook = "astro:config:done" /\ pc = "returned"
    /\ hook' = "astro:build:start"
    /\ LET dir == staticEmptied(closure.config) IN
        /\ functionFolders' = outside(functionFolders, dir)
        /\ jsonFiles' = outside(jsonFiles, dir)
        /\ staticFiles' = {f \in staticFiles : ~startsWith(f, dir)}
    /\ UNCHANGED << revision, integration, pc, thrown, options, config, adapter,
                    warnings, closure, nodeMajor, routeDefinitions, next, created,
                    tempFolder >>
    /\ UNCHANGED notAdapterVars

\* the pages and assets of the project
Pages == {"index.html", "about/index.html", "_astro/index.css"}

\* The framework's build between 'astro:build:start' and 'astro:build:done':
\* each page or asset is written under config.outDir
AstroGenerate ==
    /\ integration = "static"
    /\ hook = "astro:build:start" /\ pc = "returned"
    /\ \E page \in Pages :
        staticFiles' = staticFiles \cup {NewURL(page, config.outDir)}
    /\ UNCHANGED << revision, integration, hook, pc, thrown, options, config, adapter,
                    warnings, closure, nodeMajor, routeDefinitions, next, created,
                    functionFolders, jsonFiles, tempFolder >>
    /\ UNCHANGED notAdapterVars

\* the manifest of the static adapter
staticManifest ==
    [routes |-> <<[src |-> ".*", dest |-> "/__astro"]>>, containerized |-> FALSE]

\* where the static adapter writes its manifest
staticManifestPath(cfg) == NewURL("./config.json", getOutput(cfg.root))

\* 'astro:build:done'
StaticBuildDone ==
    /\ integration = "static"
    /\ hook = "astro:build:start" /\ pc = "returned"
    /\ hook' = "astro:build:done"
    /\ jsonFiles' = writeJson(jsonFiles, staticManifestPath(closure.config), staticManifest)
    /\ UNCHANGED << revision, integration, pc, thrown, options, config, adapter,
                    warnings, closure, nodeMajor, routeDefinitions, next, created,
                    functionFolders, staticFiles, tempFolder >>
    /\ UNCHANGED notAdapterVars

(***************************************************************************)
(* serverless/entrypoint.ts                                                *)
(***************************************************************************)

\* the largest number of requests the handler is called with
MaxRequests == 2

ASTRO_LOCALS_HEADER == "x-astro-locals"

\* The values of the x-astro-locals header of an incoming request
\* (undefined: the request has no such header)
LocalsHeaders ==
    { JSUndefined, JSStr(""), JSStr("{}"), JSStr("{ \"user\" : \"ben\" }"), JSStr("{oops") }

\* An incoming request
Requests == [host : {"example.com"}, localsHeader : LocalsHeaders]

\* What getRequest throws: an HTTP error with a status and a reason (the body
\* is larger than allowed), or an error that carries neither
RequestErrors ==
    [status : {JSUndefined, JSNum(413), JSNum(500)},
     reason : {JSUndefined, JSStr("Received content-length of 1024, but only accepted up to 512 bytes.")}]

\* What app.render resolves to
Responses == [status : {200, 404}, body : {"<html>"}]

NoRequest == [host |-> "", localsHeader |-> JSUndefined]
NoCaught == [thrown |-> FALSE, status |-> JSUndefined, reason |-> JSUndefined]
FreshRes == [statusCode |-> 200, ended |-> FALSE, body |-> ""]
NoResponse == [status |-> 0, body |-> ""]

\* Faulty variant of JSONParse: any text is taken for an empty object
JSONParseEmpty(text) == [ok |-> TRUE, value |-> {}]

\* JSON.parse on the header values above: an object is a set of key/value pairs
JSONParse(text) ==
    CASE text = "{}" -> [ok |-> TRUE, value |-> {}]
      [] text = "{ \"user\" : \"ben\" }" ->
            [ok |-> TRUE, value |-> {[key |-> "user", value |-> "ben"]}]
      [] OTHER -> [ok |-> FALSE, value |-> {}]

EntrypointIdle ==
    /\ req = NoRequest
    /\ hpc = "idle"
    /\ caught = NoCaught
    /\ res = FreshRes
    /\ calls = <<>>
    /\ locals = {}
    /\ served = 0
    /\ response = NoResponse

\* Faulty variant of errorStatus: the status of the error is ignored
errorStatusIgnored(err) == 400

\* res.statusCode = err.status || 400
errorStatus(err) == IF Truthy(err.status) THEN err.status.num ELSE 400

\* res.end(err.reason || 'Invalid request body')
errorBody(err) == IF Truthy(err.reason) THEN err.reason.str ELSE "Invalid request body"

\* where the handler is after the catch clause: it returns
afterCatch == "done"

\* The function is invoked with a request: the handler awaits getRequest
HandlerCall ==
    /\ hpc \in {"idle", "done", "rejected"}
    /\ served < MaxRequests
    /\ served' = served + 1
    /\ req' \in Requests
    /\ hpc' = "getRequest"
    /\ caught' = NoCaught
    /\ res' = FreshRes
    /\ calls' = <<>>
    /\ locals' = {}
    /\ response' = NoResponse
    /\ UNCHANGED notEntrypointVars

\* getRequest rejects: the catch clause
GetRequestThrows ==
    /\ hpc = "getRequest"
    /\ \E err \in RequestErrors :
        /\ caught' = [thrown |-> TRUE, status |-> err.status, reason |-> err.reason]
        /\ res' = [statusCode |-> errorStatus(err), ended |-> TRUE, body |-> errorBody(err)]
    /\ hpc' = afterCatch
    /\ UNCHANGED << req, calls, locals, served, response >>
    /\ UNCHANGED notEntrypointVars

\* getRequest resolves: app.match, the locals, and the call of app.render
GetRequestReturns ==
    /\ hpc = "getRequest"
    /\ LET has == req.localsHeader # JSUndefined
           localsAsString == req.localsHeader
           parsed == JSONParse(localsAsString.str)
       IN  IF has /\ Truthy(localsAsString) /\ ~parsed.ok
           THEN \* JSON.parse throws a SyntaxError
                /\ calls' = <<"match">>
                /\ hpc' = "rejected"
                /\ UNCHANGED locals
           ELSE /\ locals' = IF has /\ Truthy(localsAsString) THEN parsed.value ELSE {}
                /\ calls' = <<"match", "render">>
                /\ hpc' = "render"
    /\ UNCHANGED << req, caught, res, served, response >>
    /\ UNCHANGED notEntrypointVars

\* app.render resolves: setResponse is called with its result
RenderReturns ==
    /\ hpc = "render"
    /\ response' \in Responses
    /\ calls' = Append(calls, "setResponse")
    /\ hpc' = "setResponse"
    /\ UNCHANGED << req, caught, res, locals, served >>
    /\ UNCHANGED notEntrypointVars

\* setResponse resolves: the response has been written to res
SetResponseReturns ==
    /\ hpc = "setResponse"
    /\ res' = [statusCode |-> response.status, ended |-> TRUE, body |-> response.body]
    /\ hpc' = "done"
    /\ UNCHANGED << req, caught, calls, locals, served, response >>
    /\ UNCHANGED notEntrypointVars

(***************************************************************************)
(* actions-blog/src/actions/index.ts                                       *)
(***************************************************************************)

\* the largest number of invocations of blog.like
MaxLikeCalls == 3
\* the largest number of rows of table Comment
MaxComments == 2

\* the ids of the entries of the 'blog' collection
BlogCollection == {"first-post", "second-post"}

\* the posts that have a row in table Likes (one row per post)
LikedPosts == {"first-post", "second-post"}

\* the postId values blog.like is called with
LikeInputs == {JSStr("first-post"), JSStr("second-post"), JSStr("bogus"), JSUndefined}

\* where an action is called from
LikeVias == {"client", "server"}
CommentVias == {"client", "progressive-fallback"}

\* FormData of a blog.comment submission: field name -> value, for the
\* fields the form holds
Fields == {"postId", "author", "body"}
FieldValues(f) ==
    CASE f = "postId" -> {"first-post", "bogus"}
      [] f = "author" -> {"Ben"}
      [] f = "body"   -> {"Too short", "0123456789", "This should be long enough."}
FormDatas ==
    UNION { { fd \in [S -> UNION {FieldValues(f) : f \in Fields}] :
                \A f \in S : fd[f] \in FieldValues(f) } : S \in SUBSET Fields }

NoRow == [postId |-> "", author |-> "", body |-> ""]
NoOp == [via |-> "", input |-> <<>>, kind |-> "none", fields |-> {}, code |-> "",
         message |-> "", handlerRan |-> FALSE, row |-> NoRow]

BlogIdle ==
    /\ Likes = [p \in LikedPosts |-> 10]
    /\ Comment = <<>>
    /\ likeCalls = <<>>
    /\ lastOp = NoOp

\* input: z.object({ postId: z.string() })
likeInputValid(postId) == typeof(postId) = "string"

\* Faulty variant of updateLikes: the where clause is missing
updateLikesAll(rows, postId) == [p \in DOMAIN rows |-> rows[p] + 1]

\* db.update(Likes).set({ likes: sql`likes + 1` }).where(eq(Likes.postId, postId))
updateLikes(rows, postId) ==
    [p \in DOMAIN rows |-> IF p = postId THEN rows[p] + 1 ELSE rows[p]]

\* blog.like is called: the input is validated, and the handler waits
LikeCall ==
    /\ Len(likeCalls) < MaxLikeCalls
    /\ \E postId \in LikeInputs, via \in LikeVias :
        likeCalls' = Append(likeCalls,
            [postId |-> postId, via |-> via,
             status |-> IF likeInputValid(postId) THEN "waiting" ELSE "invalid",
             result |-> 0])
    /\ UNCHANGED << Likes, Comment, lastOp >>
    /\ UNCHANGED notBlogVars

\* Faulty variant of returnedLikes: the count before the update
returnedLikesBefore(rows, postId) == rows[postId] - 1

\* const { likes } = ... .returning().get(): the likes of the updated row
returnedLikes(rows, postId) == rows[postId]

\* The timer of an invocation has fired: the update runs and the handler
\* returns the likes of the row it got back (it throws when there is none)
LikeUpdate ==
    /\ \E i \in 1..Len(likeCalls) :
        /\ likeCalls[i].status = "waiting"
        /\ LET postId == likeCalls[i].postId.str
               rows   == updateLikes(Likes, postId)
           IN  IF postId \in DOMAIN Likes
               THEN /\ Likes' = rows
                    /\ likeCalls' = [likeCalls EXCEPT ![i].status = "returned",
                                                      ![i].result = returnedLikes(rows, postId)]
               ELSE /\ Likes' = rows
                    /\ likeCalls' = [likeCalls EXCEPT ![i].status = "threw"]
    /\ UNCHANGED << Comment, lastOp >>
    /\ UNCHANGED notBlogVars

\* Faulty variant of bodyValid: the minimum is one too small
bodyValidNine(body) == Len(body) >= 9

\* body: z.string().min(10)
bodyValid(body) == Len(body) >= 10

\* input: z.object({ postId: z.string(), author: z.string(), body: z.string().min(10) }):
\* the fields that fail validation
commentInputErrors(fd) ==
    {f \in Fields : f \notin DOMAIN fd}
        \cup {f \in {"body"} : f \in DOMAIN fd /\ ~bodyValid(fd[f])}

\* Faulty variant of postFound: the post is not looked up
postFoundAlways(postId) == TRUE

\* (await getCollection('blog')).find(b => b.id === postId)
postFound(postId) == postId \in BlogCollection

\* Faulty variant of commentValues: body and author are exchanged
commentValuesSwapped(postId, author, body) ==
    [postId |-> postId, author |-> body, body |-> author]

\* db.insert(Comment).values({ postId, body, author })
commentValues(postId, author, body) ==
    [postId |-> postId, author |-> author, body |-> body]

\* blog.comment is submitted as a form
CommentSubmit ==
    /\ Len(Comment) < MaxComments
    /\ \E fd \in FormDatas, via \in CommentVias :
        LET errors == commentInputErrors(fd)
            op == [NoOp EXCEPT !.via = via, !.input = fd] IN
        IF errors # {}
        THEN /\ lastOp' = [op EXCEPT !.kind = "validation", !.fields = errors]
             /\ UNCHANGED Comment
        ELSE IF ~postFound(fd.postId)
        THEN /\ lastOp' = [op EXCEPT !.kind = "error", !.handlerRan = TRUE,
                                     !.code = "NOT_FOUND", !.message = "Post not found"]
             /\ UNCHANGED Comment
        ELSE LET comment == commentValues(fd.postId, fd.author, fd.body) IN
             /\ Comment' = Append(Comment, comment)
             /\ lastOp' = [op EXCEPT !.kind = "ok", !.handlerRan = TRUE, !.row = comment]
    /\ UNCHANGED << Likes, likeCalls >>
    /\ UNCHANGED notBlogVars

(***************************************************************************)
(* The Vue integration: virtualAppEntrypoint                               *)
(***************************************************************************)

\* the character U+0000, written as in the source
NUL == "\\0"

VIRTUAL_MODULE_ID == "virtual:@astrojs/vue/app"
RESOLVED_VIRTUAL_MODULE_ID == NUL \o VIRTUAL_MODULE_ID

\* the appEntrypoint option (undefined: the option is not given)
VueAppEntrypoints ==
    { JSUndefined, JSStr(""), JSStr("./src/pages/_app.ts"), JSStr("../shared/_app"),
      JSStr("/src/pages/_app"), JSStr("@org/theme/app") }

\* config.root of the resolved Vite config
ViteRoots == {"/project", "/home/me/site"}

\* the command Vite runs
ViteCommands == {"build", "serve"}

\* the ids Vite asks the plugin about
VueIds ==
    { VIRTUAL_MODULE_ID, RESOLVED_VIRTUAL_MODULE_ID, "virtual:@astrojs/vue/app.js",
      "vue", "/project/src/components/Counter.vue",
      "/project/src/components/Counter.vue?vue&type=style&index=0&lang.css",
      "/project/src/pages/index.astro" }

\* the code of a module handed to transform
VueCodes == {"<template><button/></template>"}

\* the segments of a path
RECURSIVE splitPath(_)
splitPath(p) ==
    LET i == indexOf(p, "/")
    IN  IF i = 0 THEN <<p>>
        ELSE <<SubSeq(p, 1, i - 1)>> \o splitPath(SubSeq(p, i + 1, Len(p)))

\* node:path normalisation of the segments of an absolute path
RECURSIVE resolveSegments(_, _)
resolveSegments(stack, segments) ==
    IF segments = <<>> THEN stack
    ELSE LET h == Head(segments) IN
         resolveSegments(
            IF h = "" \/ h = "." THEN stack
            ELSE IF h = ".."
                 THEN (IF stack = <<>> THEN stack ELSE SubSeq(stack, 1, Len(stack) - 1))
                 ELSE Append(stack, h),
            Tail(segments))

RECURSIVE joinPath(_)
joinPath(segments) ==
    IF segments = <<>> THEN "" ELSE "/" \o Head(segments) \o joinPath(Tail(segments))

\* path.resolve(from, to) on POSIX, from being absolute
pathResolve(from, to) ==
    LET full == IF startsWith(to, "/") THEN to ELSE from \o "/" \o to
        segments == resolveSegments(<<>>, splitPath(full))
    IN  IF segments = <<>> THEN "/" ELSE joinPath(segments)

\* JSON.stringify of a string that holds no quote, backslash or control character
JSONStringify(s) == "\"" \o s \o "\""

NoVueCall == [hook |-> "none", id |-> "", code |-> ""]
VueNothing == [t |-> "undefined", id |-> "", imports |-> "", setup |-> "",
               warns |-> FALSE, code |-> ""]
NoVueRun == [ran |-> FALSE, hasDefault |-> FALSE, defaultCalled |-> FALSE,
             warned |-> FALSE]

\* the plugin object has been created and no hook has run
VueIdle ==
    /\ vueOptions = JSUndefined
    /\ vuePhase = "created"
    /\ vueCommand = ""
    /\ isBuild = JSUndefined
    /\ viteRoot = ""
    /\ appEntrypoint = JSUndefined
    /\ vueCall = NoVueCall
    /\ vueResult = VueNothing
    /\ vueRun = NoVueRun

\* hook config(_, { command })
VueConfig ==
    /\ vuePhase = "created"
    /\ \E command \in ViteCommands :
        /\ vueCommand' = command
        /\ isBuild' = JSBool(command = "build")
    /\ vuePhase' = "config"
    /\ UNCHANGED << vueOptions, viteRoot, appEntrypoint, vueCall, vueResult, vueRun >>
    /\ UNCHANGED notVueVars

\* hook configResolved(config)
VueConfigResolved ==
    /\ vuePhase = "config"
    /\ \E r \in ViteRoots :
        /\ viteRoot' = r
        /\ appEntrypoint' =
              IF Truthy(vueOptions)
              THEN IF startsWith(vueOptions.str, ".")
                   THEN JSStr(pathResolve(r, vueOptions.str))
                   ELSE vueOptions
              ELSE appEntrypoint
    /\ vuePhase' = "resolved"
    /\ UNCHANGED << vueOptions, vueCommand, isBuild, vueCall, vueResult, vueRun >>
    /\ UNCHANGED notVueVars

\* what resolveId returns
resolveId(id) ==
    IF id = VIRTUAL_MODULE_ID
    THEN [VueNothing EXCEPT !.t = "id", !.id = RESOLVED_VIRTUAL_MODULE_ID]
    ELSE VueNothing

\* hook resolveId(id)
VueResolveId ==
    /\ vuePhase = "resolved"
    /\ \E id \in VueIds :
        /\ vueCall' = [hook |-> "resolveId", id |-> id, code |-> ""]
        /\ vueResult' = resolveId(id)
    /\ vueRun' = NoVueRun
    /\ UNCHANGED << vueOptions, vuePhase, vueCommand, isBuild, viteRoot, appEntrypoint >>
    /\ UNCHANGED notVueVars

\* what load returns: a module, by what it imports, what its setup does and
\* whether the warning is part of its else branch
load(id) ==
    IF id = RESOLVED_VIRTUAL_MODULE_ID
    THEN IF Truthy(appEntrypoint)
         THEN [VueNothing EXCEPT !.t = "module", !.imports = appEntrypoint.str,
                                 !.setup = "default", !.warns = ~Truthy(isBuild)]
         ELSE [VueNothing EXCEPT !.t = "module", !.setup = "noop"]
    ELSE VueNothing

\* hook load(id)
VueLoad ==
    /\ vuePhase = "resolved"
    /\ \E id \in VueIds :
        /\ vueCall' = [hook |-> "load", id |-> id, code |-> ""]
        /\ vueResult' = load(id)
    /\ vueRun' = NoVueRun
    /\ UNCHANGED << vueOptions, vuePhase, vueCommand, isBuild, viteRoot, appEntrypoint >>
    /\ UNCHANGED notVueVars

\* The setup function of the loaded module is run with an app; the module it
\* imports has a default export or has none
VueSetup ==
    /\ vueCall.hook = "load"
    /\ vueResult.t = "module"
    /\ \E hasDefault \in BOOLEAN :
        vueRun' =
            [ran           |-> TRUE,
             hasDefault    |-> hasDefault,
             defaultCalled |-> vueResult.setup = "default" /\ hasDefault,
             warned        |-> vueResult.setup = "default" /\ ~hasDefault /\ vueResult.warns]
    /\ UNCHANGED << vueOptions, vuePhase, vueCommand, isBuild, viteRoot, appEntrypoint,
                    vueCall, vueResult >>
    /\ UNCHANGED notVueVars

\* Faulty variant of transformApplies: any id that holds '.vue'
transformAppliesAnywhere(id) == indexOf(id, ".vue") > 0

\* the ids transform changes
transformApplies(id) == endsWith(id, ".vue")

\* what transform returns (the source map is left out)
transform(code, id) ==
    IF ~Truthy(appEntrypoint) THEN VueNothing
    ELSE IF transformApplies(id)
         THEN [VueNothing EXCEPT
                 !.t = "code",
                 !.code = "import " \o JSONStringify(appEntrypoint.str) \o ";\n" \o code]
         ELSE VueNothing

\* hook transform(code, id)
VueTransform ==
    /\ vuePhase = "resolved"
    /\ \E code \in VueCodes, id \in VueIds :
        /\ vueCall' = [hook |-> "transform", id |-> id, code |-> code]
        /\ vueResult' = transform(code, id)
    /\ vueRun' = NoVueRun
    /\ UNCHANGED << vueOptions, vuePhase, vueCommand, isBuild, viteRoot, appEntrypoint >>
    /\ UNCHANGED notVueVars

(***************************************************************************)
(* Specifications                                                          *)
(***************************************************************************)

\* the adapters at rest, for the specifications of the other programs
AdapterIdle ==
    /\ revision = 1
    /\ integration = "none"
    /\ hook = "none"
    /\ pc = "returned"
    /\ thrown = NoError
    /\ options = NoOptions
    /\ config = UserConfig("server")
    /\ adapter = NoAdapter
    /\ warnings = {}
    /\ closure = NoClosure
    /\ nodeMajor = "18"
    /\ routeDefinitions = <<>>
    /\ next = 1
    /\ created = <<>>
    /\ functionFolders = <<>>
    /\ jsonFiles = <<>>
    /\ staticFiles = {}
    /\ tempFolder = FALSE

\* A build of a project with either adapter
Init == AdapterInit /\ EntrypointIdle /\ BlogIdle /\ VueIdle

Next ==
    \/ vercelServerless
    \/ ServerlessConfigSetup
    \/ ServerlessConfigDone
    \/ AstroServerBuild
    \/ ServerlessBuildSsr
    \/ ServerlessBuildDone
    \/ CopyDependencies
    \/ WritePackageJson
    \/ WriteConfigJson
    \/ RemoveTempFolder
    \/ vercelStatic
    \/ StaticConfigSetup
    \/ StaticConfigDone
    \/ StaticBuildStart
    \/ AstroGenerate
    \/ StaticBuildDone

Spec == Init /\ [][Next]_vars

\* The deployed function handling requests
EntrypointInit == AdapterIdle /\ EntrypointIdle /\ BlogIdle /\ VueIdle

EntrypointNext ==
    \/ HandlerCall
    \/ GetRequestThrows
    \/ GetRequestReturns
    \/ RenderReturns
    \/ SetResponseReturns

SpecEntrypoint == EntrypointInit /\ [][EntrypointNext]_vars

\* blog.like
LikeInit ==
    /\ AdapterIdle /\ EntrypointIdle /\ VueIdle
    /\ Likes \in [LikedPosts -> {0, 10}]
    /\ Comment = <<>>
    /\ likeCalls = <<>>
    /\ lastOp = NoOp

LikeNext ==
    \/ LikeCall
    \/ LikeUpdate

SpecLike == LikeInit /\ [][LikeNext]_vars

\* blog.comment
CommentInit == AdapterIdle /\ EntrypointIdle /\ BlogIdle /\ VueIdle

CommentNext == CommentSubmit

SpecComment == CommentInit /\ [][CommentNext]_vars

\* The Vue virtual-module plugin: created with some appEntrypoint option
VueInit ==
    /\ AdapterIdle /\ EntrypointIdle /\ BlogIdle
    /\ vueOptions \in VueAppEntrypoints
    /\ vuePhase = "created"
    /\ vueCommand = ""
    /\ isBuild = JSUndefined
    /\ viteRoot = ""
    /\ appEntrypoint = JSUndefined
    /\ vueCall = NoVueCall
    /\ vueResult = VueNothing
    /\ vueRun = NoVueRun

VueNext ==
    \/ VueConfig
    \/ VueConfigResolved
    \/ VueResolveId
    \/ VueLoad
    \/ VueSetup
    \/ VueTransform

SpecVue == VueInit /\ [][VueNext]_vars

(***************************************************************************)
(* Properties                                                              *)
(***************************************************************************)

OutputDir == "file:///project/.zeabur/output/"
ConfigJsonPath == OutputDir \o "config.json"
FolderOf(name) == OutputDir \o "functions/" \o name \o ".func/"

\* serverless 'astro:build:done' has completed
ServerlessDone ==
    integration = "serverless" /\ hook = "astro:build:done" /\ pc = "returned"

\* C1: when serverless 'astro:build:done' has completed, config.json holds,
\* for every (route, entry file) pair of the mapping, an entry whose src is
\* the route's pattern and whose dest is the route's function name; for an
\* empty mapping it holds exactly one entry, the catch-all for '__astro'.
C1_ManifestPerRoute ==
    ServerlessDone =>
        /\ ConfigJsonPath \in DOMAIN jsonFiles
        /\ LET routes == jsonFiles[ConfigJsonPath].routes
               eps    == closure.entryPoints
           IN  IF Len(eps) > 0
               THEN \A i \in 1..Len(eps) : \E j \in 1..Len(routes) :
                        /\ routes[j].src = eps[i].pattern
                        /\ routes[j].dest = funcName(eps[i])
               ELSE /\ Len(routes) = 1
                    /\ routes[1].src \in {".*", "/.*"}
                    /\ routes[1].dest \in {"__astro", "/__astro"}

\* C2: when serverless 'astro:build:done' has completed, every entry of the
\* mapping has its entry file copied into functions/<name>.func/ of its
\* function, with a package.json of type 'module' there, and the folders
\* created are those of the routes in order; for an empty mapping the one
\* folder created is functions/__astro.func/, from the server entry file of
\* the temporary build folder.
C2_FunctionFolders ==
    ServerlessDone =>
        LET eps == closure.entryPoints
            has(name, entry) ==
                /\ FolderOf(name) \in DOMAIN functionFolders
                /\ entry \in functionFolders[FolderOf(name)]
                /\ (FolderOf(name) \o "package.json") \in DOMAIN jsonFiles
                /\ jsonFiles[FolderOf(name) \o "package.json"] = [type |-> "module"]
        IN  IF Len(eps) > 0
            THEN /\ \A i \in 1..Len(eps) : has(funcName(eps[i]), eps[i].entryFile)
                 /\ created = [i \in 1..Len(eps) |-> funcName(eps[i])]
            ELSE /\ created = <<"__astro">>
                 /\ has("__astro", "file:///project/dist/index.mjs")

\* a build with two routes and a bundled middleware has completed
C2_Witness ==
    /\ ServerlessDone
    /\ Len(closure.entryPoints) = 2
    /\ closure.extraFilesToInclude # {}

\* C3: an invocation of blog.like for a post that has a Likes row returns,
\* and the step that completes it adds 1 to the likes of that post, returns
\* the new count and leaves the likes of every other post as they were,
\* from the client and from the server alike.
C3_LikeIncrements ==
    [][ \A i \in 1..Len(likeCalls) :
          ( /\ likeCalls[i].status = "waiting"
            /\ likeCalls'[i].status # "waiting"
            /\ likeCalls[i].postId.str \in DOMAIN Likes )
          => LET p == likeCalls[i].postId.str IN
             /\ likeCalls'[i].status = "returned"
             /\ DOMAIN Likes' = DOMAIN Likes
             /\ Likes'[p] = Likes[p] + 1
             /\ likeCalls'[i].result = Likes[p] + 1
             /\ \A q \in DOMAIN Likes \ {p} : Likes'[q] = Likes[q] ]_vars

\* 10 likes have become 11, once from the client and once from the server
C3_Witness ==
    \E i, j \in 1..Len(likeCalls) :
        /\ likeCalls[i].status = "returned" /\ likeCalls[i].via = "client"
        /\ likeCalls[i].result = 11
        /\ likeCalls[j].status = "returned" /\ likeCalls[j].via = "server"
        /\ likeCalls[j].result = 11
        /\ likeCalls[i].postId # likeCalls[j].postId

\* C4: a blog.comment submission whose body has fewer than 10 characters
\* ends in a validation error that names 'body', without the handler being
\* run and without a change to the stored comments, from the client form
\* and from the progressive-fallback form alike.
C4_ShortBodyRejected ==
    [][ ( /\ "body" \in DOMAIN lastOp'.input
          /\ Len(lastOp'.input["body"]) < 10 )
        => /\ lastOp'.kind = "validation"
           /\ "body" \in lastOp'.fields
           /\ ~lastOp'.handlerRan
           /\ Comment' = Comment ]_vars

\* a 9-character body was rejected on the fallback form, with a comment stored
C4_Witness ==
    /\ lastOp.kind = "validation"
    /\ lastOp.via = "progressive-fallback"
    /\ DOMAIN lastOp.input = Fields
    /\ Len(lastOp.input["body"]) = 9
    /\ Len(Comment) = 1

\* C5: a blog.comment submission that passes validation and whose postId is
\* no entry of the 'blog' collection fails with code NOT_FOUND and message
\* 'Post not found', and the stored comments are unchanged.
C5_UnknownPostRejected ==
    [][ ( /\ DOMAIN lastOp'.input = Fields
          /\ Len(lastOp'.input["body"]) >= 10
          /\ lastOp'.input["postId"] \notin {"first-post", "second-post"} )
        => /\ lastOp'.kind = "error"
           /\ lastOp'.code = "NOT_FOUND"
           /\ lastOp'.message = "Post not found"
           /\ Comment' = Comment ]_vars

\* a valid submission for post 'bogus' was rejected
C5_Witness ==
    /\ lastOp.kind = "error"
    /\ lastOp.input["postId"] = "bogus"
    /\ Len(lastOp.input["body"]) = 10
    /\ Len(Comment) = 1

\* C6: a blog.comment submission with postId, author and a body of at least
\* 10 characters, for an existing post, appends exactly one comment with the
\* submitted postId, author and body, and returns it, from the client form
\* and from the progressive-fallback form alike.
C6_CommentInserted ==
    [][ ( /\ DOMAIN lastOp'.input = Fields
          /\ Len(lastOp'.input["body"]) >= 10
          /\ lastOp'.input["postId"] \in {"first-post", "second-post"} )
        => LET row == [postId |-> lastOp'.input["postId"],
                       author |-> lastOp'.input["author"],
                       body   |-> lastOp'.input["body"]] IN
           /\ lastOp'.kind = "ok"
           /\ lastOp'.row = row
           /\ Comment' = Append(Comment, row)
           /\ \E k \in 1..Len(Comment') : Comment'[k] = row ]_vars

\* a comment of exactly 10 characters was stored through the fallback form
C6_Witness ==
    /\ lastOp.kind = "ok"
    /\ lastOp.via = "progressive-fallback"
    /\ Len(Comment) = 2
    /\ Comment[2] = [postId |-> "first-post", author |-> "Ben", body |-> "0123456789"]

\* C7: 'astro:config:done' of the serverless adapter throws an AstroError
\* exactly when config.output is 'static', that of the static adapter throws
\* an Error exactly when the output is 'server' or 'hybrid'; otherwise the
\* hook returns; either way the adapter is registered by then.
C7_ConfigDoneRejects ==
    hook = "astro:config:done" =>
        /\ pc \in {"returned", "threw"}
        /\ pc = "returned" => thrown = NoError
        /\ integration = "serverless" =>
            /\ pc = "threw" <=> config.output = "static"
            /\ pc = "threw" => thrown.name = "AstroError"
            /\ adapter.name = "@zeabur/astro-adapter/serverless"
        /\ integration = "static" =>
            /\ pc = "threw" <=> config.output \in {"server", "hybrid"}
            /\ pc = "threw" =>
                thrown = Err("Error",
                    "@zeabur/astro-adapter/static should be used with output: 'static'")
            /\ adapter.name = "@zeabur/astro-adapter/static"

\* the serverless adapter has rejected a static project, registered
C7_Witness ==
    /\ hook = "astro:config:done" /\ pc = "threw"
    /\ integration = "serverless"
    /\ adapter.name = "@zeabur/astro-adapter/serverless"

\* C8: vercelServerless throws a TypeError, and returns no integration, for
\* every supplied maxDuration that is not a number or is a number <= 0; for
\* a positive number it returns the integration.
C8_MaxDurationPositive ==
    (hook = "construct" /\ integration # "static") =>
        LET maxDuration == options.maxDuration
            supplied == maxDuration # JSUndefined
            positive == maxDuration.t = "number" /\ maxDuration.num > 0
        IN  /\ (supplied /\ ~positive) =>
                (pc = "threw" /\ thrown.name = "TypeError" /\ integration = "none")
            /\ (supplied /\ positive) => (pc = "returned" /\ integration = "serverless")

\* C9: in a build with the static adapter nothing is generated before
\* 'astro:build:start' has emptied the platform output directory; from then
\* on nothing of an earlier build is left in it; config.json is written only
\* afterwards, at 'astro:build:done', with exactly the catch-all route to
\* '/__astro' and containerized false.
C9_StaticEmptiedThenWritten ==
    integration = "static" =>
        LET stale ==
                \/ StaleFolder \in DOMAIN functionFolders
                \/ (StaleFolder \o "package.json") \in DOMAIN jsonFiles
                \/ (OutputDir \o "static/stale.html") \in staticFiles
                \/ (ConfigJsonPath \in DOMAIN jsonFiles /\ jsonFiles[ConfigJsonPath] = StaleConfig)
        IN  /\ hook \in {"construct", "astro:config:setup", "astro:config:done"} =>
                staticFiles \subseteq {OutputDir \o "static/stale.html"}
            /\ hook = "astro:build:start" =>
                (~stale /\ ConfigJsonPath \notin DOMAIN jsonFiles)
            /\ hook = "astro:build:done" =>
                /\ ~stale
                /\ ConfigJsonPath \in DOMAIN jsonFiles
                /\ jsonFiles[ConfigJsonPath] =
                      [routes |-> <<[src |-> ".*", dest |-> "/__astro"]>>,
                       containerized |-> FALSE]

\* a static build with generated pages has ended
C9_Witness ==
    /\ integration = "static"
    /\ hook = "astro:build:done"
    /\ Cardinality(staticFiles) = 3
    /\ DOMAIN jsonFiles = {ConfigJsonPath}

\* C10: when getRequest has thrown, the response is ended with the status of
\* the error (400 when it has none) and its reason ('Invalid request body'
\* when it has none), and neither app.match nor app.render nor setResponse
\* is called for the request.
C10_BadRequest ==
    caught.thrown =>
        /\ hpc = "done"
        /\ res.ended
        /\ res.statusCode = (IF caught.status = JSUndefined THEN 400 ELSE caught.status.num)
        /\ res.body = (IF caught.reason = JSUndefined THEN "Invalid request body"
                       ELSE caught.reason.str)
        /\ calls = <<>>

\* a second request failed with an error that has a status but no reason
C10_Witness ==
    /\ caught.thrown
    /\ caught.status = JSNum(413)
    /\ caught.reason = JSUndefined
    /\ res.statusCode = 413
    /\ served = 2

\* the number of calls of createFunctionFolder a complete run makes
NumFunctions ==
    IF Len(closure.entryPoints) > 0 THEN Len(closure.entryPoints) ELSE 1

\* serverless 'astro:build:done' has rejected while creating a function folder
FunctionFailed ==
    /\ integration = "serverless" /\ hook = "astro:build:done" /\ pc = "threw"
    /\ thrown.name = "Error"
    /\ Len(routeDefinitions) < NumFunctions

\* the function folders an earlier build left, and those of the given names
FoldersOf(names) == {StaleFolder} \cup {FolderOf(names[i]) : i \in 1..Len(names)}

\* C11: when the dependency copy or the package.json write of a function
\* fails in serverless 'astro:build:done', the hook rejects at once with that
\* error; the failed call is the last call of createFunctionFolder (none for
\* a later route, none repeated), config.json is not written, the temporary
\* build folder is still there, and nothing happens afterwards.
C11_NoRecovery ==
    /\ [][ ( /\ hook = "astro:build:done" /\ integration = "serverless"
             /\ pc \in {"copy", "package"}
             /\ thrown' # NoError )
           => /\ pc' = "threw"
              /\ thrown' = (IF pc = "copy"
                            THEN Err("Error", "copyDependenciesToFunction failed")
                            ELSE Err("Error", "writeJson failed"))
              /\ jsonFiles' = jsonFiles
              /\ tempFolder' = tempFolder ]_vars
    /\ [][ FunctionFailed => UNCHANGED vars ]_vars
    /\ [] ( FunctionFailed =>
              /\ Len(created) = Len(routeDefinitions) + 1
              /\ Len(closure.entryPoints) > 0 =>
                    \A i \in 1..Len(created) : created[i] = funcName(closure.entryPoints[i])
              /\ DOMAIN functionFolders \subseteq FoldersOf(created)
              /\ ConfigJsonPath \in DOMAIN jsonFiles => jsonFiles[ConfigJsonPath] = StaleConfig
              /\ tempFolder = TRUE )

\* the package.json write of the first of two routes failed
C11_Witness ==
    /\ FunctionFailed
    /\ thrown = Err("Error", "writeJson failed")
    /\ Len(closure.entryPoints) = 2
    /\ created = <<funcName(closure.entryPoints[1])>>
    /\ FolderOf(created[1]) \in DOMAIN functionFolders
    /\ tempFolder = TRUE

\* the name C12 describes for a route: the component without its leading
\* 'src/pages/', or else the base name of the entry file without its first
\* 'entry.' and without a trailing '.mjs'
describedName(route) ==
    LET c == route.component
        u == route.entryFile
        cut == CHOOSE k \in 0..Len(u) :
                  /\ (k = 0 \/ SubSeq(u, k, k) = "/")
                  /\ \A j \in (k + 1)..Len(u) : SubSeq(u, j, j) # "/"
        base == SubSeq(u, cut + 1, Len(u))
        at(k) == k + 5 <= Len(base) /\ SubSeq(base, k, k + 5) = "entry."
        first == IF \E k \in 1..Len(base) : at(k)
                 THEN CHOOSE k \in 1..Len(base) : at(k) /\ \A j \in 1..(k - 1) : ~at(j)
                 ELSE 0
        rest == IF first = 0 THEN base
                ELSE SubSeq(base, 1, first - 1) \o SubSeq(base, first + 6, Len(base))
    IN  IF Len(c) >= 10 /\ SubSeq(c, 1, 10) = "src/pages/"
        THEN SubSeq(c, 11, Len(c))
        ELSE IF Len(rest) >= 4 /\ SubSeq(rest, Len(rest) - 3, Len(rest)) = ".mjs"
             THEN SubSeq(rest, 1, Len(rest) - 4)
             ELSE rest

\* C12: every call of createFunctionFolder that serverless 'astro:build:done'
\* makes for a route is made with the name C12 describes for that route, and
\* a call is made with the name '__astro' only when the mapping is empty.
C12_FunctionNames ==
    (integration = "serverless" /\ hook = "astro:build:done") =>
        /\ Len(closure.entryPoints) > 0 =>
            /\ Len(created) <= Len(closure.entryPoints)
            /\ \A i \in 1..Len(created) :
                /\ created[i] = describedName(closure.entryPoints[i])
                /\ created[i] # "__astro"
        /\ Len(closure.entryPoints) = 0 =>
            \A i \in 1..Len(created) : created[i] = "__astro"

\* a page of src/pages and an injected route have got their function names
C12_Witness ==
    /\ ServerlessDone
    /\ created = <<"blog/[slug].astro", "_image.astro">>

\* the warnings validateRuntime can print
RuntimeWarnings == {"node:beta", "node:unsupported", "node:deprecated"}

\* C13: in the revision that calls validateRuntime, the call never makes
\* 'astro:build:done' throw: for a Node.js major version outside the table
\* of supported versions it prints the 'not supported' warnings, for a beta
\* version the beta warnings, for a deprecated version the deprecation
\* warnings, for the current version nothing, and the hook goes on to
\* create the function folders.
C13_RuntimeNeverThrows ==
    (integration = "serverless" /\ hook = "astro:build:done" /\ revision = 1) =>
        /\ thrown.name # "TypeError"
        /\ warnings \cap RuntimeWarnings =
              (CASE nodeMajor = "20" -> {"node:beta"}
                 [] nodeMajor = "16" -> {"node:deprecated"}
                 [] nodeMajor = "18" -> {}
                 [] OTHER            -> {"node:unsupported"})
        /\ pc = "threw" => Len(created) > 0

\* createFunctionFolder has completed for the function of the given name
FunctionComplete(name) ==
    /\ FolderOf(name) \in DOMAIN functionFolders
    /\ (FolderOf(name) \o "package.json") \in DOMAIN jsonFiles

\* config.json has been written by this run of serverless 'astro:build:done'
ManifestWritten ==
    /\ ConfigJsonPath \in DOMAIN jsonFiles
    /\ jsonFiles[ConfigJsonPath] # StaleConfig

\* C14: in a run of serverless 'astro:build:done' the function folders are
\* created one after another, each one complete (dependencies copied,
\* package.json written) before the next is begun; config.json is written
\* only when all of them are complete, and the temporary build folder is
\* removed only after that; it is there as long as a function folder is
\* still to be created and is gone when the hook has completed.
C14_StepOrder ==
    /\ [] ( (integration = "serverless" /\ hook = "astro:build:done" /\ pc # "threw") =>
              /\ pc \in {"copy", "package", "config", "cleanup", "returned"}
              /\ pc = "copy" =>
                    Len(created) = next - 1 /\ next <= NumFunctions
              /\ pc = "package" =>
                    /\ Len(created) = next /\ next <= NumFunctions
                    /\ FolderOf(created[next]) \in DOMAIN functionFolders
              /\ pc \in {"copy", "package"} =>
                    /\ \A i \in 1..(next - 1) : FunctionComplete(created[i])
                    /\ Len(routeDefinitions) = next - 1
                    /\ ~ManifestWritten
                    /\ tempFolder
              /\ pc \in {"config", "cleanup", "returned"} =>
                    /\ Len(created) = NumFunctions
                    /\ \A i \in 1..Len(created) : FunctionComplete(created[i])
              /\ pc = "config" => (~ManifestWritten /\ tempFolder)
              /\ pc = "cleanup" => (ManifestWritten /\ tempFolder)
              /\ pc = "returned" => (ManifestWritten /\ ~tempFolder) )
    /\ [][ (tempFolder /\ ~tempFolder') =>
              /\ pc = "cleanup"
              /\ Len(created) = NumFunctions
              /\ ManifestWritten ]_vars
    /\ [][ (integration = "serverless" /\ ~ManifestWritten /\ ManifestWritten') =>
              /\ pc = "config"
              /\ Len(created) = NumFunctions
              /\ \A i \in 1..Len(created) : FunctionComplete(created[i]) ]_vars

\* a run for two routes of the later revision has completed, over the output
\* of an earlier build
C14_Witness ==
    /\ ServerlessDone
    /\ revision = 2
    /\ Len(created) = 2 /\ created[1] # created[2]
    /\ ManifestWritten
    /\ ~tempFolder
    /\ StaleFolder \in DOMAIN functionFolders

\* the request in hand was converted: getRequest has returned
Converted == hpc \in {"render", "setResponse", "done", "rejected"} /\ ~caught.thrown

\* how often the handler has called the given function for the request
CallsOf(f) == Cardinality({i \in 1..Len(calls) : calls[i] = f})

\* C15: for a converted request the handler renders once, with locals that
\* are the parsed value of the x-astro-locals header when the header is
\* there and not empty and an empty object otherwise, and hands the result
\* to setResponse once; when the header is not valid JSON the handler
\* rejects, having neither rendered nor written a response.
C15_RenderWithLocals ==
    Converted =>
        LET header == req.localsHeader
            given  == header.t = "string" /\ header.str # ""
            valid  == header.str \in {"{}", "{ \"user\" : \"ben\" }"}
        IN  /\ (given /\ ~valid) =>
                /\ hpc = "rejected"
                /\ CallsOf("render") = 0 /\ CallsOf("setResponse") = 0
                /\ res = [statusCode |-> 200, ended |-> FALSE, body |-> ""]
            /\ ~(given /\ ~valid) =>
                /\ hpc # "rejected"
                /\ CallsOf("render") = 1
                /\ locals = (IF given /\ header.str = "{ \"user\" : \"ben\" }"
                             THEN {[key |-> "user", value |-> "ben"]}
                             ELSE {})
                /\ hpc = "render" => CallsOf("setResponse") = 0
                /\ hpc \in {"setResponse", "done"} => CallsOf("setResponse") = 1
                /\ hpc = "done" =>
                    /\ calls = <<"match", "render", "setResponse">>
                    /\ res = [statusCode |-> response.status, ended |-> TRUE,
                              body |-> response.body]

\* the second request, with locals in its header, was rendered and answered
C15_Witness ==
    /\ hpc = "done" /\ ~caught.thrown
    /\ served = 2
    /\ locals = {[key |-> "user", value |-> "ben"]}
    /\ calls = <<"match", "render", "setResponse">>
    /\ res.ended /\ res.statusCode = 404

\* the module the plugin is to import for the option it was created with:
\* the option itself, or its path below (or beside) the Vite root when it
\* starts with '.'
describedEntrypoint ==
    CASE vueOptions.str = "./src/pages/_app.ts" /\ viteRoot = "/project" ->
            "/project/src/pages/_app.ts"
      [] vueOptions.str = "./src/pages/_app.ts" /\ viteRoot = "/home/me/site" ->
            "/home/me/site/src/pages/_app.ts"
      [] vueOptions.str = "../shared/_app" /\ viteRoot = "/project" ->
            "/shared/_app"
      [] vueOptions.str = "../shared/_app" /\ viteRoot = "/home/me/site" ->
            "/home/me/shared/_app"
      [] OTHER -> vueOptions.str

\* C16: resolveId answers '\0virtual:@astrojs/vue/app' for the id
\* 'virtual:@astrojs/vue/app' and nothing for any other id; load of the
\* resolved id gives a module with a no-op setup when no appEntrypoint (or
\* an empty one) was configured, and otherwise a module that imports the
\* appEntrypoint, resolved against the Vite root when it starts with '.',
\* whose setup calls the default export when there is one and warns, when
\* there is none, only if the command is not 'build'; load of any other id
\* gives nothing; transform prepends the import of the appEntrypoint to the
\* code of ids that end in '.vue' when an appEntrypoint is configured, and
\* returns nothing otherwise.
C16_VirtualModule ==
    LET configured == vueOptions.t = "string" /\ vueOptions.str # ""
        id == vueCall.id
    IN  /\ vueCall.hook = "resolveId" =>
            IF id = "virtual:@astrojs/vue/app"
            THEN vueResult.t = "id" /\ vueResult.id = "\\0virtual:@astrojs/vue/app"
            ELSE vueResult.t = "undefined"
        /\ vueCall.hook = "load" =>
            IF id = "\\0virtual:@astrojs/vue/app"
            THEN /\ vueResult.t = "module"
                 /\ ~configured => (vueResult.setup = "noop" /\ vueResult.imports = "")
                 /\ configured =>
                        /\ vueResult.setup = "default"
                        /\ vueResult.imports = describedEntrypoint
                 /\ vueRun.ran =>
                        /\ vueRun.defaultCalled <=> (configured /\ vueRun.hasDefault)
                        /\ vueRun.warned <=>
                              (configured /\ ~vueRun.hasDefault /\ vueCommand # "build")
            ELSE vueResult.t = "undefined" /\ ~vueRun.ran
        /\ vueCall.hook = "transform" =>
            LET n == Len(id)
                vueFile == n >= 4 /\ SubSeq(id, n - 3, n) = ".vue"
            IN  IF configured /\ vueFile
                THEN /\ vueResult.t = "code"
                     /\ vueResult.code =
                           "import \"" \o describedEntrypoint \o "\";\n" \o vueCall.code
                ELSE vueResult.t = "undefined"

\* in a dev server, the setup of the module loaded for a relative
\* appEntrypoint without a default export has warned
C16_Witness ==
    /\ vueCall.hook = "load"
    /\ vueOptions = JSStr("../shared/_app")
    /\ vueResult.imports = "/home/me/shared/_app"
    /\ vueCommand = "serve"
    /\ vueRun.ran /\ vueRun.warned

\* the invocations of blog.like for post p that have returned
ReturnedFor(p) ==
    {i \in 1..Len(likeCalls) :
        likeCalls[i].status = "returned" /\ likeCalls[i].postId.str = p}

\* C17: whatever the order in which overlapping invocations of blog.like
\* issue their updates, no like is lost: the likes of a post are always its
\* initial likes plus the number of invocations for it that have returned,
\* and the values these returned are distinct and are exactly initial+1 up
\* to initial+k.
C17_NoLostLike ==
    /\ [] ( \A p \in DOMAIN Likes :
              LET k == Cardinality(ReturnedFor(p)) IN
              /\ \A i, j \in ReturnedFor(p) :
                    i # j => likeCalls[i].result # likeCalls[j].result
              /\ {likeCalls[i].result : i \in ReturnedFor(p)}
                    = (Likes[p] - k + 1)..Likes[p] )
    /\ [][ \A p \in DOMAIN Likes :
              /\ p \in DOMAIN Likes'
              /\ Likes'[p] - Cardinality(ReturnedFor(p)')
                    = Likes[p] - Cardinality(ReturnedFor(p)) ]_vars

\* three invocations for one post overlapped; the one made last issued its
\* update first; all have returned
C17_Witness ==
    /\ Len(likeCalls) = 3
    /\ \A i \in 1..3 : likeCalls[i].postId = JSStr("first-post")
                       /\ likeCalls[i].status = "returned"
    /\ likeCalls[3].result = 11 /\ likeCalls[1].result = 13
    /\ Likes["first-post"] = 13

\* C18: the calls of createFunctionFolder that serverless 'astro:build:done'
\* makes for the routes of the mapping are made with names that differ from
\* one another, so that when the hook has completed there are as many
\* function folders of this build as there are routes in the mapping.
C18_FoldersIsolated ==
    (integration = "serverless" /\ hook = "astro:build:done"
        /\ Len(closure.entryPoints) > 0) =>
        /\ \A i, j \in 1..Len(created) : i # j => created[i] # created[j]
        /\ pc = "returned" =>
            Cardinality({d \in DOMAIN functionFolders : d # StaleFolder})
                = Len(closure.entryPoints)

====
